---- MODULE Spec2Model ----
(***************************************************************************)
(* A model of cleanlab's numeric helpers (cleanlab/internal/util.py and    *)
(* cleanlab/internal/token_classification_utils.py).                       *)
(*                                                                         *)
(* Reals are exact rationals.  The rounding routines work on a grid of     *)
(* 1/Den: the integer q stands for the real q/Den, so an integer-valued    *)
(* float k is the grid value k*Den.  Python's 0-based index i is the       *)
(* 1-based index i+1 of a TLA+ sequence.  Each specification starts with   *)
(* a call of one function about to be made on arguments drawn from a       *)
(* bounded set.                                                            *)
(***************************************************************************)
EXTENDS Integers, Sequences, FiniteSets, TLC

VARIABLES
    op,               \* the function the caller invoked
    pc,               \* position inside the running function
    iterable,         \* round_preserving_sum: the argument
    floats,           \* round_preserving_sum: np.asarray(iterable, dtype=float)
    ints,             \* round_preserving_sum: the float array being corrected
    orig_sum,         \* round_preserving_sum: np.sum(floats).round()
    int_sum,          \* round_preserving_sum: np.sum(ints).round()
    passes,           \* number of executions of the while body in this call
    changed,          \* number of entries the last while body changed
    confident_joint,  \* round_preserving_row_totals: the argument
    row,              \* apply_along_axis: the row being processed (0 = none)
    buff,             \* apply_along_axis: the output rows filled so far
    noise_matrix,     \* remove_noise_from_class / clip_noise_rates: the argument
    class_without_noise, \* remove_noise_from_class: the argument (0 = none)
    x,                \* clip_values: the argument
    low,              \* clip_values: the argument
    high,             \* clip_values: the argument
    new_sum,          \* clip_values: the argument (None when omitted)
    probs,            \* merge_probs: the argument
    maps,             \* merge_probs: the argument
    true,             \* confusion_matrix: the argument
    pred,             \* confusion_matrix: the argument
    issues,           \* display_issues: the argument
    exclude,          \* display_issues: the argument
    pred_probs,       \* display_issues: whether the argument is given (truthy)
    labels,           \* display_issues: whether the argument is given (truthy)
    top,              \* display_issues: the argument
    shown,            \* display_issues: the counter of issues shown
    pos,              \* display_issues: issues taken from the list by the for loop
    printed,          \* display_issues: the issues printed so far, in order
    outcome,          \* "none" while running, "returned", or the exception raised
    result,           \* the value returned to the caller
    result_base       \* the memory the returned array lives in ("none": no array)

roundVars == <<iterable, floats, ints, orig_sum, int_sum, passes, changed>>
rowVars == <<confident_joint, row, buff>>
noiseVars == <<noise_matrix, class_without_noise>>
clipVars == <<x, low, high, new_sum>>
mergeVars == <<probs, maps>>
confVars == <<true, pred>>
displayVars == <<issues, exclude, pred_probs, labels, top, shown, pos, printed>>
vars == <<op, pc, iterable, floats, ints, orig_sum, int_sum, passes, changed,
          confident_joint, row, buff, noise_matrix, class_without_noise,
          x, low, high, new_sum, probs, maps, true, pred,
          issues, exclude, pred_probs, labels, top, shown, pos, printed,
          outcome, result, result_base>>

----------------------------------------------------------------------------
(* Bounds of the model *)

\* grid resolution: the integer q stands for the real q / Den
Den == 4
\* longest vector handed to round_preserving_sum
MaxLen == 3
\* largest grid value of an input entry
MaxQ == 6
\* the smallest grid value of an input entry is -NegQ
NegQ == 2
\* most rows of a matrix handed to round_preserving_row_totals
MaxRows == 2
\* most columns of a matrix handed to round_preserving_row_totals
MaxCols == 2
\* most classes K of a noise matrix
MaxK == 2
\* most rows N of the matrix handed to merge_probs
MaxN == 1
\* most columns (old classes) of the matrix handed to merge_probs
MaxOld == 2
\* the labels handed to confusion_matrix are 0..MaxLabel
MaxLabel == 2
\* longest list of issues handed to display_issues
MaxIssues == 3
\* largest value of the argument top of display_issues
MaxTop == 3

\* a value no function returns: the call has not returned
NoResult == <<"no result">>

\* an optional argument is a sequence: None when omitted, <<v>> when given
None == <<>>

----------------------------------------------------------------------------
(* Memory.  An array lives either in the memory of the array the caller   *)
(* passed in ("input": the same array or a view of it) or in memory        *)
(* allocated by the call ("fresh").                                        *)

\* the array is the caller's own, or a view of it
Shared == "input"

\* the array was allocated by the call
Fresh == "fresh"

\* the caller's array after the in-place writes that leave an array living
\* in base with the value written
WrittenInput(base, input, written) == IF base = Shared THEN written ELSE input

\* x = noise_matrix: no copy
NoCopy == Shared

\* np.copy(noise_matrix): a new array
NpCopy == Fresh

\* the array a np.vectorize'd function returns
VectorizeOut == Fresh

\* floats.round(): a new array
RoundOut == Fresh

\* np.zeros(...): a new array
ZerosOut == Fresh

\* the result of an arithmetic expression on arrays (a / b, a * b): a new array
ArithmeticOut == Fresh

\* a.astype(int): a copy, also when a is an int array already
AsTypeOut == Fresh

----------------------------------------------------------------------------
(* Arithmetic helpers *)

Abs(a) == IF a < 0 THEN -a ELSE a

Min(a, b) == IF a <= b THEN a ELSE b

Max(a, b) == IF a >= b THEN a ELSE b

RECURSIVE SumSeq(_)
\* np.sum / sum over a sequence
SumSeq(s) == IF s = <<>> THEN 0 ELSE Head(s) + SumSeq(Tail(s))

\* sequences of length 0..n over S
SeqsUpTo(S, n) == UNION {[1..k -> S] : k \in 0..n}

\* ndarray.round() / np.round of one value: nearest integer, ties to even.
\* Takes and returns grid values.
RoundHalfEven(q) ==
    LET f == q \div Den
        r == q % Den
    IN  IF 2 * r < Den THEN f * Den
        ELSE IF 2 * r > Den THEN (f + 1) * Den
        ELSE IF f % 2 = 0 THEN f * Den ELSE (f + 1) * Den

\* int(x) / astype(int): truncation toward zero of a grid value to an integer
TruncToInt(q) == IF q >= 0 THEN q \div Den ELSE -((-q) \div Den)

----------------------------------------------------------------------------
(* Exact rationals: the quotients the renormalisations compute.  A zero    *)
(* denominator stands for the non-finite float (nan or +-inf) numpy        *)
(* returns for a division by zero.                                         *)

Rat(n, d) == [num |-> n, den |-> d]

RECURSIVE GCD(_, _)
GCD(a, b) == IF b = 0 THEN a ELSE GCD(b, a % b)

\* lowest terms with a positive denominator
Normalize(q) ==
    IF q.den = 0 THEN Rat(IF q.num > 0 THEN 1 ELSE IF q.num < 0 THEN -1 ELSE 0, 0)
    ELSE LET g == GCD(Abs(q.num), Abs(q.den))
             sgn == IF q.den < 0 THEN -1 ELSE 1
         IN  Rat(sgn * (q.num \div g), sgn * (q.den \div g))

IsFinite(q) == q.den # 0

RatAdd(a, b) == Normalize(Rat(a.num * b.den + b.num * a.den, a.den * b.den))

RatMul(a, b) == Normalize(Rat(a.num * b.num, a.den * b.den))

\* float division: a zero divisor gives a non-finite value, not an exception
RatDiv(a, b) == Normalize(Rat(a.num * b.den, a.den * b.num))

\* equality of two finite values
RatEq(a, b) == IsFinite(a) /\ IsFinite(b) /\ a.num * b.den = b.num * a.den

RECURSIVE RatSum(_)
RatSum(s) == IF s = <<>> THEN Rat(0, 1) ELSE RatAdd(Head(s), RatSum(Tail(s)))

----------------------------------------------------------------------------
(* round_preserving_sum *)

\* floats.round(), element-wise
RoundAll(fs) == [i \in DOMAIN fs |-> RoundHalfEven(fs[i])]

\* np.sum(a).round()
RoundedSum(a) == RoundHalfEven(SumSeq(a))

\* the tolerance 1e-6 of the while condition, as a fraction TolNum / TolDen
TolNum == 1
TolDen == 1000000

\* the while condition with a tolerance of 1 in place of 1e-6
WhileCondLoose(isum, osum) == Abs(isum - osum) > Den

\* while abs(int_sum - orig_sum) > 1e-6
WhileCond(isum, osum) == Abs(isum - osum) * TolDen > TolNum * Den

\* diff = np.round(orig_sum - int_sum)
Diff(osum, isum) == RoundHalfEven(osum - isum)

\* increment = -1 if int(diff < 0.0) else 1
Increment(diff) == IF diff < 0 THEN -1 ELSE 1

\* changes capped at one entry per pass
ChangesCappedAtOne(diff, n) == Min(TruncToInt(Abs(diff)), Min(n, 1))

\* changes one short
ChangesOneShort(diff, n) == Min(TruncToInt(Abs(diff)), n) - 1

\* changes = min(int(abs(diff)), len(iterable))
Changes(diff, n) == Min(TruncToInt(Abs(diff)), n)

\* floats - ints, element-wise
Residuals(fs, is) == [i \in DOMAIN fs |-> fs[i] - is[i]]

RECURSIVE AscendingOrders(_, _)
\* the orderings of the indices S that put their keys in ascending order
AscendingOrders(keys, S) ==
    IF S = {} THEN {<<>>}
    ELSE UNION {{<<i>> \o rest : rest \in AscendingOrders(keys, S \ {i})} :
                   i \in {j \in S : \A k \in S : keys[j] <= keys[k]}}

\* the indices in their own order, whatever the keys
ArgsortByIndex(keys) == {[i \in DOMAIN keys |-> i]}

\* np.argsort(keys): the default kind is an unstable sort, so every
\* permutation that puts the keys in ascending order is a possible outcome.
Argsort(keys) == AscendingOrders(keys, DOMAIN keys)

\* the order reversed whatever the increment
StepSliceReversed(order, increment) ==
    [i \in DOMAIN order |-> order[Len(order) + 1 - i]]

\* order[::-increment]: reversed for increment = 1, as is for increment = -1
StepSlice(order, increment) ==
    IF increment = 1
    THEN [i \in DOMAIN order |-> order[Len(order) + 1 - i]]
    ELSE order

\* order[:changes]
Prefix(order, changes) == SubSeq(order, 1, Min(changes, Len(order)))

\* each selected entry moved by twice the increment
ApplyDoubleIncrement(is, indices, increment) ==
    [i \in DOMAIN is |->
        IF \E k \in DOMAIN indices : indices[k] = i
        THEN is[i] + 2 * increment * Den
        ELSE is[i]]

\* for i in indices: ints[i] = ints[i] + increment
ApplyIncrement(is, indices, increment) ==
    [i \in DOMAIN is |->
        IF \E k \in DOMAIN indices : indices[k] = i
        THEN is[i] + increment * Den
        ELSE is[i]]

\* ints.astype(int)
AsTypeInt(is) == [i \in DOMAIN is |-> TruncToInt(is[i])]

\* lines 188-191: the state on reaching the while loop
EnterRound(v) ==
    /\ iterable' = v
    /\ floats' = v
    /\ ints' = RoundAll(v)
    /\ orig_sum' = RoundedSum(v)
    /\ int_sum' = RoundedSum(RoundAll(v))
    /\ passes' = 0
    /\ changed' = 0

\* the caller invokes round_preserving_sum(iterable)
RoundCall ==
    /\ op = "round_preserving_sum"
    /\ pc = "call"
    /\ EnterRound(iterable)
    /\ pc' = "while"
    /\ UNCHANGED <<op, rowVars, noiseVars, clipVars, mergeVars, confVars, displayVars, outcome, result, result_base>>

\* one execution of the while body, lines 194-201
RoundPass ==
    /\ pc = "while"
    /\ WhileCond(int_sum, orig_sum)
    /\ LET diff == Diff(orig_sum, int_sum)
           increment == Increment(diff)
           changes == Changes(diff, Len(iterable))
       IN  \E order \in Argsort(Residuals(floats, ints)) :
             LET indices == Prefix(StepSlice(order, increment), changes)
                 newInts == ApplyIncrement(ints, indices, increment)
             IN  /\ ints' = newInts
                 /\ int_sum' = RoundedSum(newInts)
                 /\ changed' = Len(indices)
                 /\ iterable' = WrittenInput(RoundOut, iterable, newInts)
                 /\ floats' = WrittenInput(RoundOut, floats, newInts)
    /\ confident_joint' =
         IF row = 0 THEN confident_joint
         ELSE [confident_joint EXCEPT ![row] = iterable']
    /\ passes' = passes + 1
    /\ UNCHANGED <<op, pc, orig_sum, row, buff, noiseVars, clipVars, mergeVars,
                   confVars, displayVars, outcome, result, result_base>>

\* the while condition is false: return ints.astype(int), line 202
RoundReturn ==
    /\ op = "round_preserving_sum"
    /\ pc = "while"
    /\ ~WhileCond(int_sum, orig_sum)
    /\ result' = AsTypeInt(ints)
    /\ result_base' = AsTypeOut
    /\ outcome' = "returned"
    /\ pc' = "done"
    /\ UNCHANGED <<op, roundVars, rowVars, noiseVars, clipVars, mergeVars, confVars, displayVars>>

\* input entries of the rounding routines
GridVals == (0 - NegQ)..MaxQ

\* the state of the functions that are not running
RoundLocalsIdle ==
    /\ floats = <<>>
    /\ ints = <<>>
    /\ orig_sum = 0
    /\ int_sum = 0
    /\ passes = 0
    /\ changed = 0

RowTotalsIdle == confident_joint = <<>> /\ row = 0 /\ buff = <<>>

NoiseIdle == noise_matrix = <<>> /\ class_without_noise = 0

ClipIdle == x = <<>> /\ low = 0 /\ high = 0 /\ new_sum = None

MergeIdle == probs = <<>> /\ maps = <<>>

ConfusionIdle == true = <<>> /\ pred = <<>>

DisplayIdle ==
    /\ issues = <<>>
    /\ exclude = {}
    /\ pred_probs = FALSE
    /\ labels = FALSE
    /\ top = 0
    /\ shown = 0
    /\ pos = 0
    /\ printed = <<>>

NotReturned == outcome = "none" /\ result = NoResult /\ result_base = "none"

InitRound ==
    /\ op = "round_preserving_sum"
    /\ pc = "call"
    /\ iterable \in SeqsUpTo(GridVals, MaxLen)
    /\ RoundLocalsIdle
    /\ RowTotalsIdle
    /\ NoiseIdle
    /\ ClipIdle
    /\ MergeIdle
    /\ ConfusionIdle
    /\ DisplayIdle
    /\ NotReturned

NextRound == RoundCall \/ RoundPass \/ RoundReturn

SpecRound == InitRound /\ [][NextRound]_vars

----------------------------------------------------------------------------
(* round_preserving_row_totals *)

\* every call of func1d gets the first row
RowOfFirst(arr, r) == arr[1]

\* apply_along_axis(axis=1): the 1-d slice handed to func1d for row r
RowOf(arr, r) == arr[r]

\* the caller invokes round_preserving_row_totals(confident_joint);
\* apply_along_axis calls func1d on the first row
RowTotalsCall ==
    /\ op = "round_preserving_row_totals"
    /\ pc = "call"
    /\ row' = 1
    /\ buff' = <<>>
    /\ EnterRound(RowOf(confident_joint, 1))
    /\ pc' = "while"
    /\ UNCHANGED <<op, confident_joint, noiseVars, clipVars, mergeVars, confVars, displayVars, outcome, result, result_base>>

\* func1d returns for a row that is not the last: its result is stored and
\* func1d is called on the next row
RowTotalsNextRow ==
    /\ op = "round_preserving_row_totals"
    /\ pc = "while"
    /\ ~WhileCond(int_sum, orig_sum)
    /\ row < Len(confident_joint)
    /\ buff' = Append(buff, AsTypeInt(ints))
    /\ row' = row + 1
    /\ EnterRound(RowOf(confident_joint, row + 1))
    /\ UNCHANGED <<op, pc, confident_joint, noiseVars, clipVars, mergeVars, confVars, displayVars, outcome, result, result_base>>

\* func1d returns for the last row: apply_along_axis returns the filled
\* array and .astype(int) converts it
RowTotalsReturn ==
    /\ op = "round_preserving_row_totals"
    /\ pc = "while"
    /\ ~WhileCond(int_sum, orig_sum)
    /\ row = Len(confident_joint)
    /\ buff' = Append(buff, AsTypeInt(ints))
    /\ result' = buff'
    /\ result_base' = AsTypeOut
    /\ outcome' = "returned"
    /\ pc' = "done"
    /\ UNCHANGED <<op, roundVars, confident_joint, row, noiseVars, clipVars, mergeVars, confVars, displayVars>>

\* entries of the matrices handed to round_preserving_row_totals
MatVals == {2, 5, 6}

Matrices(S, maxRows, maxCols) ==
    UNION {[1..r -> [1..c -> S]] : r \in 1..maxRows, c \in 1..maxCols}

InitRowTotals ==
    /\ op = "round_preserving_row_totals"
    /\ pc = "call"
    /\ confident_joint \in Matrices(MatVals, MaxRows, MaxCols)
    /\ row = 0
    /\ buff = <<>>
    /\ iterable = <<>>
    /\ RoundLocalsIdle
    /\ NoiseIdle
    /\ ClipIdle
    /\ MergeIdle
    /\ ConfusionIdle
    /\ DisplayIdle
    /\ NotReturned

NextRowTotals == RowTotalsCall \/ RoundPass \/ RowTotalsNextRow \/ RowTotalsReturn

SpecRowTotals == InitRowTotals /\ [][NextRowTotals]_vars

----------------------------------------------------------------------------
(* Properties of the rounding routines *)

\* C1: when round_preserving_sum returns, the returned integers sum to
\* round(sum(iterable)), round being round-half-to-even.
C1_SumPreserved ==
    (op = "round_preserving_sum" /\ pc = "done")
        => SumSeq(result) * Den = RoundHalfEven(SumSeq(iterable))

\* a call that needed a correction has returned
C1_Witness ==
    /\ op = "round_preserving_sum"
    /\ pc = "done"
    /\ passes > 0
    /\ result # AsTypeInt(RoundAll(iterable))

\* one execution of the while body
IsPass == pc = "while" /\ passes' = passes + 1

\* C2: every pass of the correction loop changes at least one entry and
\* strictly reduces |int_sum - orig_sum|, the number of passes never exceeds
\* len(iterable), and a call that has not returned can always take its
\* next step (so the shrinking gap brings it to its return).
C2_LoopTerminates ==
    /\ [][IsPass => /\ changed' >= 1
                    /\ Abs(int_sum' - orig_sum') < Abs(int_sum - orig_sum)]_vars
    /\ [](passes <= Len(iterable))
    /\ [](pc = "done" \/ ENABLED NextRound)

\* a pass that changed several entries at once has run and the call returned
C2_Witness ==
    /\ op = "round_preserving_sum"
    /\ pc = "done"
    /\ passes = 1
    /\ changed >= 2

\* C3: round_preserving_row_totals returns a matrix with the rows of the
\* input in order, each of the input row's length, each summing to the
\* rounded sum of that input row and each a rounding of that input row
\* alone (every entry within 1 of the rounded input entry).
C3_RowTotals ==
    (op = "round_preserving_row_totals" /\ pc = "done")
        => /\ Len(result) = Len(confident_joint)
           /\ \A r \in DOMAIN confident_joint :
                /\ Len(result[r]) = Len(confident_joint[r])
                /\ SumSeq(result[r]) * Den = RoundHalfEven(SumSeq(confident_joint[r]))
                /\ \A c \in DOMAIN confident_joint[r] :
                     Abs(result[r][c] * Den - RoundHalfEven(confident_joint[r][c])) <= Den

\* a two-row matrix whose rows have different totals, the first of which
\* needed a correction, has been rounded
C3_Witness ==
    /\ op = "round_preserving_row_totals"
    /\ pc = "done"
    /\ Len(confident_joint) = 2
    /\ SumSeq(result[1]) # SumSeq(result[2])
    /\ result[1] # AsTypeInt(RoundAll(confident_joint[1]))

----------------------------------------------------------------------------
(* Noise matrices: remove_noise_from_class and clip_noise_rates.           *)
(* An entry of a noise matrix is an integer number of units of 1/Unit,     *)
(* so that 0.9999 and a value between 0.9999 and 1 are both entries.       *)
(* m[r][c] is row r, column c.                                             *)

\* the upper clip bound 0.9999 = HighNum / HighDen
HighNum == 9999
HighDen == 10000

\* units per 1.0
Unit == 2 * HighDen

\* 0.9999 in units
High == 2 * HighNum

\* the column x[:, i]
Column(m, i) == [r \in DOMAIN m |-> m[r][i]]

\* the row x[i, :]
Row(m, i) == m[i]

\* x[cwn, [i for i in range(K) if i != cwn]] = 0.0, wrongly on column cwn
ZeroColumn(m, cwn) ==
    [r \in DOMAIN m |-> [c \in DOMAIN m[r] |->
        IF c = cwn /\ r # cwn THEN 0 ELSE m[r][c]]]

\* x[cwn, [i for i in range(K) if i != cwn]] = 0.0
ZeroRow(m, cwn) ==
    [r \in DOMAIN m |-> [c \in DOMAIN m[r] |->
        IF r = cwn /\ c # cwn THEN 0 ELSE m[r][c]]]

\* the diagonal repair taking the sum of row i in place of column i
RepairDiagonalByRow(m, i) ==
    [m EXCEPT ![i][i] = Unit - (SumSeq(Row(m, i)) - m[i][i])]

\* x[i][i] = 1 - float(np.sum(x[:, i]) - x[i][i])
RepairDiagonal(m, i) ==
    [m EXCEPT ![i][i] = Unit - (SumSeq(Column(m, i)) - m[i][i])]

RECURSIVE RepairLoop(_, _)
\* for i in range(K), from index i on
RepairLoop(m, i) ==
    IF i > Len(m) THEN m ELSE RepairLoop(RepairDiagonal(m, i), i + 1)

\* lines 44-57
RemoveNoise(m, cwn) == RepairLoop(ZeroRow(m, cwn), 1)

\* the caller invokes remove_noise_from_class(noise_matrix, class_without_noise)
RemoveNoiseFromClass ==
    /\ op = "remove_noise_from_class"
    /\ pc = "call"
    /\ result' = RemoveNoise(noise_matrix, class_without_noise)
    /\ result_base' = NpCopy
    /\ noise_matrix' = WrittenInput(NpCopy, noise_matrix, result')
    /\ outcome' = "returned"
    /\ pc' = "done"
    /\ UNCHANGED <<op, roundVars, rowVars, class_without_noise, clipVars,
                   mergeVars, confVars, displayVars>>

\* clip_noise_rate_range: min(max(noise_rate, 0.0), 0.9999)
ClipNoiseRateRange(noise_rate) == Min(Max(noise_rate, 0), High)

\* np.diagonal(noise_matrix)
Diagonal(m) == [i \in DOMAIN m |-> m[i][i]]

\* vectorized_clip(noise_matrix)
VectorizedClipNoise(m) ==
    [r \in DOMAIN m |-> [c \in DOMAIN m[r] |-> ClipNoiseRateRange(m[r][c])]]

\* the clipped diagonal left in place
NoFillDiagonal(m, d) == m

\* np.fill_diagonal(noise_matrix, diagonal)
FillDiagonal(m, d) ==
    [r \in DOMAIN m |-> [c \in DOMAIN m[r] |-> IF r = c THEN d[r] ELSE m[r][c]]]

\* the matrix returned as it is, without the division
NotRenormalized(m) ==
    [r \in DOMAIN m |-> [c \in DOMAIN m[r] |-> Normalize(Rat(m[r][c], Unit))]]

\* noise_matrix / noise_matrix.sum(axis=0)
DivideByColumnSums(m) ==
    [r \in DOMAIN m |-> [c \in DOMAIN m[r] |->
        RatDiv(Rat(m[r][c], Unit), Rat(SumSeq(Column(m, c)), Unit))]]

\* lines 84-95
ClipNoise(m) ==
    DivideByColumnSums(FillDiagonal(VectorizedClipNoise(m), Diagonal(m)))

\* the caller invokes clip_noise_rates(noise_matrix)
ClipNoiseRates ==
    /\ op = "clip_noise_rates"
    /\ pc = "call"
    /\ result' = ClipNoise(noise_matrix)
    /\ result_base' = ArithmeticOut
    /\ noise_matrix' =
         WrittenInput(VectorizeOut, noise_matrix,
                      FillDiagonal(VectorizedClipNoise(noise_matrix),
                                   Diagonal(noise_matrix)))
    /\ outcome' = "returned"
    /\ pc' = "done"
    /\ UNCHANGED <<op, roundVars, rowVars, class_without_noise, clipVars,
                   mergeVars, confVars, displayVars>>

\* entries of the input matrices: -0.5, 0, 0.00005, 0.5, 0.99995, 1
ProbVals == {0 - HighDen, 0, 1, HighDen, Unit - 1, Unit}

\* columns of K entries that sum to 1 (a distribution) or to 0
ColumnsOf(K) == {c \in [1..K -> ProbVals] : SumSeq(c) \in {0, Unit}}

\* the K x K matrix with the given columns
FromColumns(cols) == [r \in DOMAIN cols |-> [c \in DOMAIN cols |-> cols[c][r]]]

\* the square matrices of 1..maxK classes built from such columns
NoiseInputs(maxK) ==
    UNION {{FromColumns(cols) : cols \in [1..K -> ColumnsOf(K)]} : K \in 1..maxK}

\* a NoiseMatrix: entries in [0, 1], every column sums to 1
ValidNoiseMatrix(m) ==
    /\ \A r \in DOMAIN m : \A c \in DOMAIN m : m[r][c] >= 0 /\ m[r][c] <= Unit
    /\ \A c \in DOMAIN m : SumSeq(Column(m, c)) = Unit

InitNoise ==
    /\ op \in {"remove_noise_from_class", "clip_noise_rates"}
    /\ pc = "call"
    /\ noise_matrix \in NoiseInputs(MaxK)
    /\ class_without_noise \in
         IF op = "remove_noise_from_class" THEN 1..Len(noise_matrix) ELSE {0}
    /\ iterable = <<>>
    /\ RoundLocalsIdle
    /\ RowTotalsIdle
    /\ ClipIdle
    /\ MergeIdle
    /\ ConfusionIdle
    /\ DisplayIdle
    /\ NotReturned

NextNoise == RemoveNoiseFromClass \/ ClipNoiseRates

SpecNoise == InitNoise /\ [][NextNoise]_vars

----------------------------------------------------------------------------
(* Properties of the noise-matrix routines *)

\* the real value of an entry given in units
UnitVal(v) == Rat(v, Unit)

\* C4: for a valid NoiseMatrix (entries in [0,1], columns summing to 1)
\* every column of the matrix clip_noise_rates returns sums to 1.
C4_ClipColumnsSumToOne ==
    (op = "clip_noise_rates" /\ pc = "done" /\ ValidNoiseMatrix(noise_matrix))
        => \A c \in DOMAIN result : RatEq(RatSum(Column(result, c)), Rat(1, 1))

\* a valid matrix with an off-diagonal entry above 0.9999 has been clipped
C4_Witness ==
    /\ op = "clip_noise_rates"
    /\ pc = "done"
    /\ ValidNoiseMatrix(noise_matrix)
    /\ \E r, c \in DOMAIN noise_matrix : r # c /\ noise_matrix[r][c] > High

\* C5: for a valid NoiseMatrix the diagonal of the matrix clip_noise_rates
\* returns equals the diagonal of the input.
C5_ClipDiagonalUnchanged ==
    (op = "clip_noise_rates" /\ pc = "done" /\ ValidNoiseMatrix(noise_matrix))
        => \A i \in DOMAIN result : RatEq(result[i][i], UnitVal(noise_matrix[i][i]))

\* C8: every off-diagonal entry of row class_without_noise of the matrix
\* remove_noise_from_class returns is 0.
C8_RowZeroed ==
    (op = "remove_noise_from_class" /\ pc = "done")
        => \A k \in DOMAIN result :
             k # class_without_noise => result[class_without_noise][k] = 0

\* a matrix with noise in row class_without_noise has been processed
C8_Witness ==
    /\ op = "remove_noise_from_class"
    /\ pc = "done"
    /\ \E k \in DOMAIN noise_matrix :
         k # class_without_noise /\ noise_matrix[class_without_noise][k] # 0

\* C9: every column of the matrix remove_noise_from_class returns sums to 1.
C9_RemoveColumnsSumToOne ==
    (op = "remove_noise_from_class" /\ pc = "done")
        => \A i \in DOMAIN result : SumSeq(Column(result, i)) = Unit

\* a column other than class_without_noise lost mass in row
\* class_without_noise and had its diagonal raised to compensate
C9_Witness ==
    /\ op = "remove_noise_from_class"
    /\ pc = "done"
    /\ \E i \in DOMAIN noise_matrix :
         /\ i # class_without_noise
         /\ noise_matrix[class_without_noise][i] > 0
         /\ result[i][i] > noise_matrix[i][i]

----------------------------------------------------------------------------
(* clip_values.  Values, bounds and sums are grid values (q stands for     *)
(* q/Den); the returned entries are exact rationals.                       *)

\* the real value of a grid value
GridVal(q) == Rat(q, Den)

\* clip_range: min(max(a, low), high)
ClipRange(a, lo, hi) == Min(Max(a, lo), hi)

\* vectorized_clip(x)
VectorizedClip(v, lo, hi) == [i \in DOMAIN v |-> ClipRange(v[i], lo, hi)]

\* the sum to restore, taken from x although new_sum was given
PrevSumOfInput(v, ns) == SumSeq(v)

\* prev_sum = sum(x) if new_sum is None else new_sum
PrevSum(v, ns) == IF ns = None THEN SumSeq(v) ELSE ns[1]

\* x * prev_sum / float(sum(x)), x being the clipped array
Rescale(clipped, prev_sum) ==
    [i \in DOMAIN clipped |->
        RatDiv(RatMul(GridVal(clipped[i]), GridVal(prev_sum)),
               GridVal(SumSeq(clipped)))]

\* lines 128-131
ClipValues(v, lo, hi, ns) == Rescale(VectorizedClip(v, lo, hi), PrevSum(v, ns))

\* the caller invokes clip_values(x, low, high, new_sum) on a non-empty x
ClipValuesCall ==
    /\ op = "clip_values"
    /\ pc = "call"
    /\ Len(x) > 0
    /\ result' = ClipValues(x, low, high, new_sum)
    /\ result_base' = ArithmeticOut
    /\ outcome' = "returned"
    /\ pc' = "done"
    /\ UNCHANGED <<op, roundVars, rowVars, noiseVars, clipVars, mergeVars, confVars, displayVars>>

\* on an empty x, np.vectorize (built without otypes) raises ValueError
ClipValuesEmpty ==
    /\ op = "clip_values"
    /\ pc = "call"
    /\ Len(x) = 0
    /\ outcome' = "ValueError"
    /\ pc' = "done"
    /\ UNCHANGED <<op, roundVars, rowVars, noiseVars, clipVars, mergeVars, confVars, displayVars, result, result_base>>

\* entries of x: -1, 0, about 0.5, 1, 2
ClipVals == {0 - Den, 0, Den \div 2, Den, 2 * Den}

\* the (low, high) pairs: the defaults (0.0, 1.0), (-1, 0) and (about 0.5, 2)
ClipBounds == {<<0, Den>>, <<0 - Den, 0>>, <<Den \div 2, 2 * Den>>}

\* new_sum: omitted, 0, 1 or 3
NewSums == {None, <<0>>, <<Den>>, <<3 * Den>>}

InitClip ==
    /\ op = "clip_values"
    /\ pc = "call"
    /\ x \in SeqsUpTo(ClipVals, MaxLen)
    /\ \E b \in ClipBounds : low = b[1] /\ high = b[2]
    /\ new_sum \in NewSums
    /\ iterable = <<>>
    /\ RoundLocalsIdle
    /\ RowTotalsIdle
    /\ NoiseIdle
    /\ MergeIdle
    /\ ConfusionIdle
    /\ DisplayIdle
    /\ NotReturned

NextClip == ClipValuesCall \/ ClipValuesEmpty

SpecClip == InitClip /\ [][NextClip]_vars

----------------------------------------------------------------------------
(* Properties of clip_values *)

\* C6: when the clipped values do not sum to 0, the values clip_values
\* returns sum to new_sum if it was given and to the sum of the input x
\* otherwise.
C6_ClipValuesSum ==
    (/\ op = "clip_values"
     /\ outcome = "returned"
     /\ SumSeq([i \in DOMAIN x |-> Min(Max(x[i], low), high)]) # 0)
        => RatEq(RatSum(result),
                 GridVal(IF new_sum = None THEN SumSeq(x) ELSE new_sum[1]))

\* a call with new_sum given, different from the sum of x, in which an
\* entry was clipped, has returned
C6_Witness ==
    /\ op = "clip_values"
    /\ outcome = "returned"
    /\ new_sum # None
    /\ new_sum # <<SumSeq(x)>>
    /\ \E i \in DOMAIN x : x[i] > high
    /\ SumSeq([i \in DOMAIN x |-> Min(Max(x[i], low), high)]) # 0

\* C7: without new_sum, every value clip_values returns is the input value
\* clipped into [low, high], min(max(v, low), high) (stated for the calls
\* whose clipped values do not sum to 0, so that every returned value is
\* finite).
C7_ClipValuesClipped ==
    (/\ op = "clip_values"
     /\ outcome = "returned"
     /\ new_sum = None
     /\ SumSeq([i \in DOMAIN x |-> Min(Max(x[i], low), high)]) # 0)
        => \A i \in DOMAIN x :
             RatEq(result[i], GridVal(Min(Max(x[i], low), high)))

----------------------------------------------------------------------------
(* merge_probs.  Entries of probs are grid values (q stands for q/Den);    *)
(* the returned entries are exact rationals.  The new class maps[i] is     *)
(* column maps[i] + 1 of the merged matrix.                                *)

RECURSIVE MaxSeq(_)
\* np.max of a non-empty sequence
MaxSeq(s) == IF Len(s) = 1 THEN s[1] ELSE Max(Head(s), MaxSeq(Tail(s)))

\* old_classes = probs.shape[1]
OldClasses(p) == Len(p[1])

\* map_size = np.max(maps) + 1
MapSize(m) == MaxSeq(m) + 1

\* the accumulator started from ones (np.ones) instead of zeros
Ones(n, k) == [r \in 1..n |-> [c \in 1..k |-> Den]]

\* np.zeros([len(probs), map_size])
Zeros(n, k) == [r \in 1..n |-> [c \in 1..k |-> 0]]

\* probs_merged[:, maps[i]] = probs[:, i]: the column overwritten
SetColumn(merged, p, i, j) ==
    [r \in DOMAIN merged |-> [merged[r] EXCEPT ![j + 1] = p[r][i]]]

\* probs_merged[:, maps[i]] += probs[:, i], with j = maps[i]
AddColumn(merged, p, i, j) ==
    [r \in DOMAIN merged |-> [merged[r] EXCEPT ![j + 1] = @ + p[r][i]]]

RECURSIVE MergeLoop(_, _, _, _)
\* for i in range(old_classes), from index i on
MergeLoop(merged, p, m, i) ==
    IF i > OldClasses(p) THEN merged
    ELSE MergeLoop(IF m[i] >= 0 THEN AddColumn(merged, p, i, m[i]) ELSE merged,
                   p, m, i + 1)

\* -1 in maps
HasDrop(m) == \E i \in DOMAIN m : m[i] = -1

\* the merged matrix returned without the division by the row sums
NotDividedByRowSums(merged) ==
    [r \in DOMAIN merged |-> [c \in DOMAIN merged[r] |->
        Normalize(GridVal(merged[r][c]))]]

\* probs_merged /= row_sums[:, np.newaxis]
DivideByRowSums(merged) ==
    [r \in DOMAIN merged |-> [c \in DOMAIN merged[r] |->
        RatDiv(GridVal(merged[r][c]), GridVal(SumSeq(merged[r])))]]

\* the merged matrix as it is
AsFloats(merged) ==
    [r \in DOMAIN merged |-> [c \in DOMAIN merged[r] |->
        Normalize(GridVal(merged[r][c]))]]

\* lines 164-174, when no exception is raised
MergeProbsResult(p, m) ==
    LET merged == MergeLoop(Zeros(Len(p), MapSize(m)), p, m, 1)
    IN  IF HasDrop(m) THEN DivideByRowSums(merged) ELSE AsFloats(merged)

\* np.max raises ValueError on an empty maps, np.zeros on a negative map_size
MergeRaisesValueError(m) == IF Len(m) = 0 THEN TRUE ELSE MapSize(m) < 0

\* an error for every map whose length differs from old_classes
MergeRaisesOnAnyMismatch(p, m) == Len(m) # OldClasses(p)

\* maps[i] raises IndexError when maps is shorter than old_classes
MergeRaisesIndexError(p, m) == Len(m) < OldClasses(p)

\* the caller invokes merge_probs(probs, maps) and it returns
MergeProbs ==
    /\ op = "merge_probs"
    /\ pc = "call"
    /\ ~MergeRaisesValueError(maps)
    /\ ~MergeRaisesIndexError(probs, maps)
    /\ result' = MergeProbsResult(probs, maps)
    /\ result_base' = ZerosOut
    /\ probs' = WrittenInput(ZerosOut, probs,
                             MergeLoop(Zeros(Len(probs), MapSize(maps)), probs, maps, 1))
    /\ outcome' = "returned"
    /\ pc' = "done"
    /\ UNCHANGED <<op, roundVars, rowVars, noiseVars, clipVars, maps, confVars,
                   displayVars>>

\* line 165 or line 166 raises ValueError
MergeProbsValueError ==
    /\ op = "merge_probs"
    /\ pc = "call"
    /\ MergeRaisesValueError(maps)
    /\ outcome' = "ValueError"
    /\ pc' = "done"
    /\ UNCHANGED <<op, roundVars, rowVars, noiseVars, clipVars, mergeVars, confVars, displayVars, result, result_base>>

\* line 169 raises IndexError
MergeProbsIndexError ==
    /\ op = "merge_probs"
    /\ pc = "call"
    /\ ~MergeRaisesValueError(maps)
    /\ MergeRaisesIndexError(probs, maps)
    /\ outcome' = "IndexError"
    /\ pc' = "done"
    /\ UNCHANGED <<op, roundVars, rowVars, noiseVars, clipVars, mergeVars, confVars, displayVars, result, result_base>>

\* entries of probs: 0, 1/Den, 2/Den
ProbEntries == {0, 1, 2}

\* class maps for K old classes: one entry short, exact or one entry long,
\* with entries from -2 (invalid), -1 (drop) and the new classes 0..K-1
ClassMaps(K) == UNION {[1..n -> (0 - 2)..(K - 1)] : n \in (K - 1)..(K + 1)}

InitMerge ==
    /\ op = "merge_probs"
    /\ pc = "call"
    /\ \E n \in 1..MaxN, K \in 1..MaxOld :
         /\ probs \in [1..n -> [1..K -> ProbEntries]]
         /\ maps \in ClassMaps(K)
    /\ iterable = <<>>
    /\ RoundLocalsIdle
    /\ RowTotalsIdle
    /\ NoiseIdle
    /\ ClipIdle
    /\ ConfusionIdle
    /\ DisplayIdle
    /\ NotReturned

NextMerge == MergeProbs \/ MergeProbsValueError \/ MergeProbsIndexError

SpecMerge == InitMerge /\ [][NextMerge]_vars

----------------------------------------------------------------------------
(* Properties of merge_probs *)

\* a ClassMap without a dropped class: one entry per old class, each a new class
ValidMapNoDrop(p, m) ==
    Len(m) = OldClasses(p) /\ \A i \in DOMAIN m : m[i] >= 0

\* the mass of row n of p on the old classes that m sends to new class j
MassOn(p, m, n, j) ==
    SumSeq([i \in 1..OldClasses(p) |-> IF m[i] = j THEN p[n][i] ELSE 0])

\* C10: for a class map with no -1 entry, merge_probs returns a matrix with
\* N rows and max(maps)+1 columns whose entry [n][j] is the sum of
\* probs[n][i] over the old columns i with maps[i] = j (0 when there is
\* none); it does return for a map with one class >= 0 per old column.
C10_MergeSums ==
    /\ (op = "merge_probs" /\ pc = "done" /\ ValidMapNoDrop(probs, maps))
          => outcome = "returned"
    /\ (op = "merge_probs" /\ outcome = "returned" /\ ~HasDrop(maps))
          => /\ Len(result) = Len(probs)
             /\ \A n \in DOMAIN result :
                  /\ Len(result[n]) = MaxSeq(maps) + 1
                  /\ \A j \in 0..MaxSeq(maps) :
                       RatEq(result[n][j + 1], GridVal(MassOn(probs, maps, n, j)))

\* two old classes with mass were merged into one new class while another
\* new class received no old class
C10_Witness ==
    /\ op = "merge_probs"
    /\ outcome = "returned"
    /\ ValidMapNoDrop(probs, maps)
    /\ \E i, k \in DOMAIN maps :
         i < k /\ maps[i] = maps[k] /\ probs[1][i] > 0 /\ probs[1][k] > 0
    /\ \E j \in 0..MaxSeq(maps) : \A i \in DOMAIN maps : maps[i] # j

\* the identity class map [0, 1, ..., K-1]
IdentityMap(K) == [i \in 1..K |-> i - 1]

\* C11: under the identity class map merge_probs returns a matrix of the
\* shape of probs whose every entry equals the entry of probs at the same
\* place.
C11_IdentityMap ==
    (/\ op = "merge_probs"
     /\ pc = "done"
     /\ maps = IdentityMap(OldClasses(probs)))
        => /\ outcome = "returned"
           /\ Len(result) = Len(probs)
           /\ \A n \in DOMAIN probs :
                /\ Len(result[n]) = Len(probs[n])
                /\ \A i \in DOMAIN probs[n] :
                     RatEq(result[n][i], GridVal(probs[n][i]))

\* a matrix of two columns whose row does not sum to 1 went through the
\* identity map
C11_Witness ==
    /\ op = "merge_probs"
    /\ outcome = "returned"
    /\ OldClasses(probs) = 2
    /\ maps = IdentityMap(2)
    /\ probs[1][1] > 0
    /\ probs[1][2] > 0
    /\ SumSeq(probs[1]) # Den

\* the mass of row n of p that survives the map m
SurvivingMass(p, m, n) ==
    SumSeq([i \in 1..OldClasses(p) |-> IF m[i] >= 0 THEN p[n][i] ELSE 0])

\* C12: when the class map contains -1, every row of the returned matrix
\* whose surviving mass is positive sums to 1, and its entry for new class j
\* is the merged mass of class j divided by the row's surviving mass.
C12_DropRenormalizes ==
    (op = "merge_probs" /\ outcome = "returned" /\ HasDrop(maps))
        => \A n \in DOMAIN result :
             SurvivingMass(probs, maps, n) > 0
                => /\ RatEq(RatSum(result[n]), Rat(1, 1))
                   /\ \A j \in 0..MaxSeq(maps) :
                        RatEq(result[n][j + 1],
                              Rat(MassOn(probs, maps, n, j),
                                  SurvivingMass(probs, maps, n)))

\* a column with mass was dropped and a row with surviving mass other than 1
\* was renormalised
C12_Witness ==
    /\ op = "merge_probs"
    /\ outcome = "returned"
    /\ HasDrop(maps)
    /\ \E i \in 1..OldClasses(probs) : maps[i] = -1 /\ probs[1][i] > 0
    /\ SurvivingMass(probs, maps, 1) > 0
    /\ SurvivingMass(probs, maps, 1) # Den

\* C14 as claimed: merge_probs ends in an exception (whichever the code
\* raises counting as the ShapeMismatchError) and returns no matrix whenever
\* the length of the class map differs from the number of columns of probs,
\* shorter or longer (stated for the maps whose entries are all -1 or a new
\* class, so that only the length is at fault).
C14_ShapeMismatchRaises ==
    (/\ op = "merge_probs"
     /\ pc = "done"
     /\ Len(maps) # OldClasses(probs)
     /\ \A i \in DOMAIN maps : maps[i] >= -1)
        => outcome # "returned" /\ result = NoResult

\* C14 as amended: a class map shorter than the number of columns ends the
\* call in an exception (IndexError, or ValueError when np.max or np.zeros
\* rejects the map) and no matrix is returned; a class map longer than the
\* number of columns that has an entry >= -1 is accepted and a matrix of
\* max(maps)+1 columns is returned.
C14_ShortMapRaises ==
    /\ (op = "merge_probs" /\ pc = "done" /\ Len(maps) < OldClasses(probs))
          => outcome \in {"IndexError", "ValueError"} /\ result = NoResult
    /\ (/\ op = "merge_probs"
        /\ pc = "done"
        /\ Len(maps) > OldClasses(probs)
        /\ MaxSeq(maps) >= -1)
          => /\ outcome = "returned"
             /\ \A n \in DOMAIN result : Len(result[n]) = MaxSeq(maps) + 1

\* a non-empty class map one entry short ended the call in IndexError
C14_Witness ==
    /\ op = "merge_probs"
    /\ pc = "done"
    /\ Len(maps) > 0
    /\ Len(maps) < OldClasses(probs)
    /\ outcome = "IndexError"

\* C15: merge_probs ends in an exception (whichever the code raises
\* counting as the InvalidClassMapError) and returns no matrix whenever the
\* class map has an entry below -1 (an entry of max(maps)+1 or more cannot
\* exist); the entry is never treated as a dropped class (stated for the
\* maps with one entry per column of probs, so that only the entry is at
\* fault).
C15_InvalidMapRaises ==
    (/\ op = "merge_probs"
     /\ pc = "done"
     /\ Len(maps) = OldClasses(probs)
     /\ \E i \in DOMAIN maps : maps[i] < -1)
        => outcome # "returned" /\ result = NoResult

----------------------------------------------------------------------------
(* Division by zero in the renormalisations *)

\* the divisor of clip_values, float(sum(x)) of the clipped x, is 0
ClipValuesDivisorZero == Len(x) > 0 /\ SumSeq(VectorizedClip(x, low, high)) = 0

\* a divisor of clip_noise_rates, a column sum after clipping and restoring
\* the diagonal, is 0
ClipNoiseDivisorZero ==
    \E c \in DOMAIN noise_matrix :
        SumSeq(Column(FillDiagonal(VectorizedClipNoise(noise_matrix),
                                   Diagonal(noise_matrix)), c)) = 0

\* a divisor of merge_probs, the sum of a merged row after dropping the -1
\* classes, is 0
MergeDivisorZero ==
    /\ Len(maps) = OldClasses(probs)
    /\ \A i \in DOMAIN maps : maps[i] >= -1
    /\ HasDrop(maps)
    /\ \E n \in DOMAIN probs : SurvivingMass(probs, maps, n) = 0

\* C13: whenever a renormalisation divisor is 0, in clip_values, in
\* clip_noise_rates or in merge_probs, the call ends in an exception (the
\* DegenerateDistributionError) and returns no result.
C13_DegenerateRaises ==
    (/\ pc = "done"
     /\ \/ op = "clip_values" /\ ClipValuesDivisorZero
        \/ op = "clip_noise_rates" /\ ClipNoiseDivisorZero
        \/ op = "merge_probs" /\ MergeDivisorZero)
        => outcome # "returned" /\ result = NoResult

----------------------------------------------------------------------------
(* confusion_matrix.  Labels are integers; the counts are the integer      *)
(* values of the float matrix.  Row a (0-based) of the result is           *)
(* result[a + 1].                                                          *)

\* the values of a sequence
Range(s) == {s[i] : i \in DOMAIN s}

RECURSIVE Descending(_)
\* the elements of a set of integers in descending order
Descending(S) ==
    IF S = {} THEN <<>>
    ELSE LET m == CHOOSE v \in S : \A w \in S : w <= v
         IN  <<m>> \o Descending(S \ {m})

RECURSIVE Ascending(_)
\* the elements of a set of integers in ascending order
Ascending(S) ==
    IF S = {} THEN <<>>
    ELSE LET m == CHOOSE v \in S : \A w \in S : v <= w
         IN  <<m>> \o Ascending(S \ {m})

\* the distinct values in descending order
UniqueDescending(s) == Descending(Range(s))

\* np.unique(s): the sorted distinct values
Unique(s) == Ascending(Range(s))

\* dict(zip(classes, range(K))): each class to its 0-based position
ClassIndex(classes) ==
    [l \in Range(classes) |-> (CHOOSE k \in DOMAIN classes : classes[k] = l) - 1]

\* result[a][b] = 1: the cell set in place of incremented
SetCell(m, a, b) == [m EXCEPT ![a + 1][b + 1] = 1]

\* result[a][b] += 1
IncrementCell(m, a, b) == [m EXCEPT ![a + 1][b + 1] = @ + 1]

RECURSIVE ConfusionLoop(_, _, _, _, _, _)
\* for i in range(len(true)), from index i on
ConfusionLoop(m, t, p, map_true, map_pred, i) ==
    IF i > Len(t) THEN m
    ELSE ConfusionLoop(IncrementCell(m, map_true[t[i]], map_pred[p[i]]),
                       t, p, map_true, map_pred, i + 1)

\* lines 308-319
ConfusionResult(t, p) ==
    LET true_classes == Unique(t)
        pred_classes == Unique(p)
        K_true == Len(true_classes)
        K_pred == Len(pred_classes)
    IN  ConfusionLoop(Zeros(K_true, K_pred), t, p,
                      ClassIndex(true_classes), ClassIndex(pred_classes), 1)

\* the caller invokes confusion_matrix(true, pred) on sequences of one length
ConfusionMatrix ==
    /\ op = "confusion_matrix"
    /\ pc = "call"
    /\ Len(true) = Len(pred)
    /\ result' = ConfusionResult(true, pred)
    /\ result_base' = ZerosOut
    /\ outcome' = "returned"
    /\ pc' = "done"
    /\ UNCHANGED <<op, roundVars, rowVars, noiseVars, clipVars, mergeVars,
                   confVars, displayVars>>

\* assert len(true) == len(pred) fails
ConfusionAssertionError ==
    /\ op = "confusion_matrix"
    /\ pc = "call"
    /\ Len(true) # Len(pred)
    /\ outcome' = "AssertionError"
    /\ pc' = "done"
    /\ UNCHANGED <<op, roundVars, rowVars, noiseVars, clipVars, mergeVars,
                   confVars, displayVars, result, result_base>>

\* the labels of the sequences handed to confusion_matrix
LabelVals == 0..MaxLabel

InitConfusion ==
    /\ op = "confusion_matrix"
    /\ pc = "call"
    /\ true \in SeqsUpTo(LabelVals, MaxLen)
    /\ pred \in SeqsUpTo(LabelVals, MaxLen)
    /\ iterable = <<>>
    /\ RoundLocalsIdle
    /\ RowTotalsIdle
    /\ NoiseIdle
    /\ ClipIdle
    /\ MergeIdle
    /\ DisplayIdle
    /\ NotReturned

NextConfusion == ConfusionMatrix \/ ConfusionAssertionError

SpecConfusion == InitConfusion /\ [][NextConfusion]_vars

----------------------------------------------------------------------------
(* Properties of confusion_matrix *)

\* the sum of all cells of a matrix
SumCells(m) == SumSeq([r \in DOMAIN m |-> SumSeq(m[r])])

\* C16: for two label sequences of equal length confusion_matrix returns,
\* and the cells of the returned matrix sum to len(true).
C16_CellsSumToLen ==
    (op = "confusion_matrix" /\ pc = "done" /\ Len(true) = Len(pred))
        => outcome = "returned" /\ SumCells(result) = Len(true)

\* a pair of label values occurred at more than one position
C16_Witness ==
    /\ op = "confusion_matrix"
    /\ outcome = "returned"
    /\ \E i, k \in DOMAIN true : i < k /\ true[i] = true[k] /\ pred[i] = pred[k]

\* the number of distinct values of a sequence
Distinct(s) == Cardinality(Range(s))

\* the a-th (0-based) smallest distinct value of a sequence
NthValue(s, a) ==
    CHOOSE v \in Range(s) : Cardinality({w \in Range(s) : w < v}) = a

\* C17: the matrix confusion_matrix returns has one row per distinct value
\* of true and one column per distinct value of pred, each side indexed by
\* its own distinct values in ascending order, and cell [a][b] is the number
\* of positions k with true[k] the a-th distinct true value and pred[k] the
\* b-th distinct pred value.
C17_CellsCount ==
    (op = "confusion_matrix" /\ outcome = "returned")
        => /\ Len(result) = Distinct(true)
           /\ \A a \in 0..(Distinct(true) - 1) :
                /\ Len(result[a + 1]) = Distinct(pred)
                /\ \A b \in 0..(Distinct(pred) - 1) :
                     result[a + 1][b + 1] =
                         Cardinality({k \in DOMAIN true :
                                        /\ true[k] = NthValue(true, a)
                                        /\ pred[k] = NthValue(pred, b)})

\* the two sides had different label sets of different sizes, given out of
\* order
C17_Witness ==
    /\ op = "confusion_matrix"
    /\ outcome = "returned"
    /\ Distinct(true) # Distinct(pred)
    /\ Range(true) # Range(pred)
    /\ Distinct(true) >= 2
    /\ true[1] > true[Len(true)]

----------------------------------------------------------------------------
(* display_issues.  An issue of the tuple form (i, j) is represented by    *)
(* what the loop reads of it: the given label labels[i][j] and the         *)
(* predicted label pred_probs[i][j].argmax().  An issue of the other form  *)
(* is a sentence index and has no labels.  What is printed for an issue    *)
(* is represented by the issue's position in the list.                     *)

\* issue = (i, j) with the labels of token j of sentence i
TupleIssue(g, p) == [tuple |-> TRUE, given |-> g, prediction |-> p]

\* issue = i, a sentence index
SentenceIssue == [tuple |-> FALSE, given |-> 0, prediction |-> 0]

\* is_tuple = isinstance(issues[0], tuple)
IsTuple(iss) == iss[1].tuple

\* lines 88-94: the issue is skipped by continue
Excluded(issue, pp, lb, excl) ==
    pp /\ lb /\ <<issue.given, issue.prediction>> \in excl

\* the caller invokes display_issues on a non-empty list: lines 73-80
DisplayCall ==
    /\ op = "display_issues"
    /\ pc = "call"
    /\ Len(issues) > 0
    /\ shown' = 0
    /\ pos' = 0
    /\ printed' = <<>>
    /\ pc' = "for"
    /\ UNCHANGED <<op, roundVars, rowVars, noiseVars, clipVars, mergeVars,
                   confVars, issues, exclude, pred_probs, labels, top,
                   outcome, result, result_base>>

\* issues[0] raises IndexError on an empty list, line 80
DisplayIndexError ==
    /\ op = "display_issues"
    /\ pc = "call"
    /\ Len(issues) = 0
    /\ outcome' = "IndexError"
    /\ pc' = "done"
    /\ UNCHANGED <<op, roundVars, rowVars, noiseVars, clipVars, mergeVars,
                   confVars, displayVars, result, result_base>>

\* a loop iteration that ends in continue, line 94
DisplaySkip ==
    /\ op = "display_issues"
    /\ pc = "for"
    /\ pos < Len(issues)
    /\ IsTuple(issues)
    /\ Excluded(issues[pos + 1], pred_probs, labels, exclude)
    /\ pos' = pos + 1
    /\ UNCHANGED <<op, pc, roundVars, rowVars, noiseVars, clipVars, mergeVars,
                   confVars, issues, exclude, pred_probs, labels, top, shown,
                   printed, outcome, result, result_base>>

\* a loop iteration that prints the issue (lines 101-113 or 115-117) and
\* then tests 'if shown == top: break' (lines 118-119); after the break the
\* function returns None
DisplayShow ==
    /\ op = "display_issues"
    /\ pc = "for"
    /\ pos < Len(issues)
    /\ ~(IsTuple(issues) /\ Excluded(issues[pos + 1], pred_probs, labels, exclude))
    /\ pos' = pos + 1
    /\ shown' = shown + 1
    /\ printed' = Append(printed, pos + 1)
    /\ IF shown' = top
       THEN /\ pc' = "done"
            /\ outcome' = "returned"
            /\ result' = None
            /\ UNCHANGED result_base
       ELSE UNCHANGED <<pc, outcome, result, result_base>>
    /\ UNCHANGED <<op, roundVars, rowVars, noiseVars, clipVars, mergeVars,
                   confVars, issues, exclude, pred_probs, labels, top>>

\* the list is exhausted: the function returns None
DisplayReturn ==
    /\ op = "display_issues"
    /\ pc = "for"
    /\ pos = Len(issues)
    /\ pc' = "done"
    /\ outcome' = "returned"
    /\ result' = None
    /\ UNCHANGED <<op, roundVars, rowVars, noiseVars, clipVars, mergeVars,
                   confVars, displayVars, result_base>>

\* the class labels of the tokens
TokenLabels == {0, 1}

\* lists of issues: all of the tuple form or all sentence indices
IssueLists(maxLen) ==
    SeqsUpTo({TupleIssue(g, p) : g \in TokenLabels, p \in TokenLabels}, maxLen)
        \cup SeqsUpTo({SentenceIssue}, maxLen)

\* the exclude lists: subsets of the two label swaps
ExcludeLists == SUBSET {<<0, 1>>, <<1, 0>>}

InitDisplay ==
    /\ op = "display_issues"
    /\ pc = "call"
    /\ issues \in IssueLists(MaxIssues)
    /\ exclude \in ExcludeLists
    /\ pred_probs \in BOOLEAN
    /\ labels \in BOOLEAN
    /\ top \in 0..MaxTop
    /\ shown = 0
    /\ pos = 0
    /\ printed = <<>>
    /\ iterable = <<>>
    /\ RoundLocalsIdle
    /\ RowTotalsIdle
    /\ NoiseIdle
    /\ ClipIdle
    /\ MergeIdle
    /\ ConfusionIdle
    /\ NotReturned

NextDisplay ==
    DisplayCall \/ DisplayIndexError \/ DisplaySkip \/ DisplayShow \/ DisplayReturn

SpecDisplay == InitDisplay /\ [][NextDisplay]_vars

----------------------------------------------------------------------------
(* Properties of display_issues *)

\* C18: display_issues never prints more than top issues, for every
\* non-empty list of issues, every exclude list and every top >= 0 (top = 0
\* included): the loop prints no issue once top issues have been shown.
C18_AtMostTop == op = "display_issues" => Len(printed) <= top

----------------------------------------------------------------------------
(* The two rounding routines under one specification *)

InitRounding == InitRound \/ InitRowTotals

NextRounding ==
    \/ RoundCall
    \/ RoundPass
    \/ RoundReturn
    \/ RowTotalsCall
    \/ RowTotalsNextRow
    \/ RowTotalsReturn

SpecRounding == InitRounding /\ [][NextRounding]_vars

\* every entry of a vector is >= 0
NonNegative(v) == \A i \in DOMAIN v : v[i] >= 0

\* C19: when every entry of the vector being rounded is >= 0, no entry of
\* the integers being corrected is ever negative (a decrement never lands
\* on an entry that is 0), every entry round_preserving_sum returns is a
\* non-negative integer, and so is every entry of every row
\* round_preserving_row_totals returns for a matrix of entries >= 0.
C19_NonNegative ==
    /\ (pc = "while" /\ NonNegative(floats)) => NonNegative(ints)
    /\ (op = "round_preserving_sum" /\ pc = "done" /\ NonNegative(iterable))
          => NonNegative(result)
    /\ (/\ op = "round_preserving_row_totals"
        /\ pc = "done"
        /\ \A r \in DOMAIN confident_joint : NonNegative(confident_joint[r]))
          => \A r \in DOMAIN result : NonNegative(result[r])

\* a vector of entries >= 0 with an entry that rounds to 0 needed a
\* decrement
C19_Witness ==
    /\ op = "round_preserving_sum"
    /\ pc = "done"
    /\ NonNegative(iterable)
    /\ \E i \in DOMAIN iterable : RoundHalfEven(iterable[i]) = 0
    /\ SumSeq(result) < SumSeq(AsTypeInt(RoundAll(iterable)))

----------------------------------------------------------------------------
(* The six core operations under one specification *)

InitCore == InitRound \/ InitRowTotals \/ InitNoise \/ InitClip \/ InitMerge

NextCore ==
    \/ RoundCall
    \/ RoundPass
    \/ RoundReturn
    \/ RowTotalsCall
    \/ RowTotalsNextRow
    \/ RowTotalsReturn
    \/ RemoveNoiseFromClass
    \/ ClipNoiseRates
    \/ ClipValuesCall
    \/ ClipValuesEmpty
    \/ MergeProbs
    \/ MergeProbsValueError
    \/ MergeProbsIndexError

SpecCore == InitCore /\ [][NextCore]_vars

\* C20: no step of remove_noise_from_class, clip_noise_rates, clip_values,
\* round_preserving_sum, round_preserving_row_totals or merge_probs changes
\* a value of the array the caller passed in (nor of the class map), and the
\* array a call returns lives in memory of its own, not in the caller's
\* array.
C20_InputsUntouched ==
    [][/\ noise_matrix' = noise_matrix
       /\ x' = x
       /\ confident_joint' = confident_joint
       /\ (op = "round_preserving_sum" => iterable' = iterable)
       /\ probs' = probs
       /\ maps' = maps
       /\ (outcome' = "returned" => result_base' = Fresh)]_vars

\* a call of remove_noise_from_class that wrote to its working array has
\* returned, or a call of round_preserving_sum that corrected entries in
\* place, or a call of merge_probs that divided its rows in place
C20_Witness ==
    /\ pc = "done"
    /\ outcome = "returned"
    /\ \/ op = "remove_noise_from_class" /\ result # noise_matrix
       \/ op = "round_preserving_sum" /\ passes > 0
       \/ op = "merge_probs" /\ HasDrop(maps)

----------------------------------------------------------------------------
(* Which entries round_preserving_sum corrects *)

RECURSIVE StableOrder(_, _)
\* the one ordering of the indices S a stable ascending sort of the keys
\* gives: equal keys in index order
StableOrder(keys, S) ==
    IF S = {} THEN <<>>
    ELSE LET i == CHOOSE j \in S :
                    \A k \in S : keys[j] < keys[k] \/ (keys[j] = keys[k] /\ j <= k)
         IN  <<i>> \o StableOrder(keys, S \ {i})

\* the integers after a pass that takes its indices from a stable sort
StablePass(fs, is, osum, isum) ==
    LET diff == Diff(osum, isum)
        increment == Increment(diff)
        order == StableOrder(Residuals(fs, is), DOMAIN fs)
    IN  ApplyIncrement(is, Prefix(StepSlice(order, increment),
                                  Changes(diff, Len(fs))), increment)

ChangedBy(before, after) == {i \in DOMAIN before : after[i] # before[i]}

Corrections(fs, is) == [i \in DOMAIN fs |-> is[i] - RoundHalfEven(fs[i])]

\* every correction is 0 or +1, or every correction is 0 or -1
AtMostOneSameSign(c) ==
    \/ \A i \in DOMAIN c : c[i] \in {0, Den}
    \/ \A i \in DOMAIN c : c[i] \in {0, 0 - Den}

\* C22: every entry round_preserving_sum returns differs from the
\* element-wise round(v[i]) by at most 1 and all the corrections of one call
\* have the same sign; the same holds of the integers at every point of the
\* correction loop.
C22_BoundedCorrection ==
    /\ (op = "round_preserving_sum" /\ pc = "while")
          => AtMostOneSameSign(Corrections(floats, ints))
    /\ (op = "round_preserving_sum" /\ pc = "done")
          => AtMostOneSameSign(
                 [i \in DOMAIN iterable |->
                     result[i] * Den - RoundHalfEven(iterable[i])])

\* a call that lowered two entries by 1 and left another as rounded has
\* returned
C22_Witness ==
    /\ op = "round_preserving_sum"
    /\ pc = "done"
    /\ Cardinality({i \in DOMAIN iterable :
                      result[i] * Den = RoundHalfEven(iterable[i]) - Den}) = 2
    /\ \E i \in DOMAIN iterable : result[i] * Den = RoundHalfEven(iterable[i])

----------------------------------------------------------------------------
(* clip_noise_rates on matrices that are already calibrated *)

\* every off-diagonal entry lies in [0, 0.9999] and every column sums to 1
Calibrated(m) ==
    /\ \A r, c \in DOMAIN m : r # c => m[r][c] >= 0 /\ m[r][c] <= High
    /\ \A c \in DOMAIN m : SumSeq(Column(m, c)) = Unit

\* every entry of a returned matrix is a whole number of units
OnGrid(q) ==
    \A r \in DOMAIN q : \A c \in DOMAIN q[r] :
        IsFinite(q[r][c]) /\ Unit % q[r][c].den = 0

\* a returned matrix in units, to be handed to clip_noise_rates again
ToUnits(q) ==
    [r \in DOMAIN q |-> [c \in DOMAIN q[r] |->
        q[r][c].num * (Unit \div q[r][c].den)]]

\* two returned matrices are equal entry for entry
SameMatrix(a, b) ==
    /\ DOMAIN a = DOMAIN b
    /\ \A r \in DOMAIN a :
         /\ DOMAIN a[r] = DOMAIN b[r]
         /\ \A c \in DOMAIN a[r] : RatEq(a[r][c], b[r][c])

\* C23: clip_noise_rates returns a calibrated matrix (off-diagonal entries in
\* [0, 0.9999], columns summing to 1) entry for entry as it was; and when the
\* matrix returned for any input has its off-diagonal entries in range,
\* clip_noise_rates applied to it returns it again (checked for the returned
\* matrices whose entries are whole numbers of units).
C23_CalibratedFixed ==
    /\ (op = "clip_noise_rates" /\ pc = "done" /\ Calibrated(noise_matrix))
          => SameMatrix(result, NotRenormalized(noise_matrix))
    /\ (/\ op = "clip_noise_rates"
        /\ pc = "done"
        /\ OnGrid(result)
        /\ \A r, c \in DOMAIN result :
             r # c => ToUnits(result)[r][c] >= 0 /\ ToUnits(result)[r][c] <= High)
          => SameMatrix(ClipNoise(ToUnits(result)), result)

\* a calibrated matrix with noise in both columns and an accuracy above
\* 0.9999 on its diagonal went through clip_noise_rates
C23_Witness ==
    /\ op = "clip_noise_rates"
    /\ pc = "done"
    /\ Len(noise_matrix) = 2
    /\ Calibrated(noise_matrix)
    /\ noise_matrix[1][2] > 0
    /\ noise_matrix[2][1] > 0
    /\ noise_matrix[1][1] > High

\* a returned value lies in [0, 0.9999]
InNoiseRange(q) ==
    /\ IsFinite(q)
    /\ q.num >= 0
    /\ q.num * HighDen <= HighNum * q.den

\* C24: for a valid NoiseMatrix (entries in [0,1], columns summing to 1)
\* every off-diagonal entry of the matrix clip_noise_rates returns lies in
\* [0, 0.9999]: the renormalisation pushes no noise rate back out of range.
C24_NoiseRatesInRange ==
    (op = "clip_noise_rates" /\ pc = "done" /\ ValidNoiseMatrix(noise_matrix))
        => \A r, c \in DOMAIN result : r # c => InNoiseRange(result[r][c])

----------------------------------------------------------------------------
(* When merge_probs renormalises *)

\* the rows of the returned matrix sum to what the rows of probs sum to
RowSumsKept ==
    \A n \in DOMAIN result :
        RatEq(RatSum(result[n]), GridVal(SumSeq(probs[n])))

\* every row of the returned matrix is the merged row divided by its sum
\* (a row whose sum is 0 comes back as numpy's nan)
EveryRowDivided ==
    \A n \in DOMAIN result : \A j \in 0..MaxSeq(maps) :
        IF SurvivingMass(probs, maps, n) = 0
        THEN ~IsFinite(result[n][j + 1])
        ELSE RatEq(result[n][j + 1],
                   Rat(MassOn(probs, maps, n, j), SurvivingMass(probs, maps, n)))

\* C25: merge_probs renormalises only when the class map contains -1: with
\* no -1 in the map no row is divided, so every returned row sums to what
\* the row of probs sums to, whether or not that is 1; with a -1 in the map
\* every row is divided by its sum, the rows that lost no mass included
\* (stated for the maps with one entry per column of probs, so that only
\* the entries of the map decide).
C25_RenormalizesOnlyOnDrop ==
    /\ (/\ op = "merge_probs"
        /\ outcome = "returned"
        /\ Len(maps) = OldClasses(probs)
        /\ ~HasDrop(maps))
          => RowSumsKept
    /\ (op = "merge_probs" /\ outcome = "returned" /\ HasDrop(maps))
          => EveryRowDivided

----------------------------------------------------------------------------
(* How many passes round_preserving_sum needs *)

\* C26: round_preserving_sum needs at most one correction pass: on reaching
\* the loop |round(sum(v)) - sum(round(v))| is at most len(v), so changes is
\* int(|diff|), never capped by len(v), and after the first pass the
\* integer sum equals the target and the loop exits.
C26_AtMostOnePass ==
    op = "round_preserving_sum"
        => /\ passes <= 1
           /\ (pc = "while" /\ passes = 0)
                 => /\ Abs(Diff(orig_sum, int_sum)) <= Len(iterable) * Den
                    /\ Changes(Diff(orig_sum, int_sum), Len(iterable))
                         = TruncToInt(Abs(Diff(orig_sum, int_sum)))
           /\ (pc = "while" /\ passes = 1)
                 => int_sum = orig_sum /\ ~WhileCond(int_sum, orig_sum)

\* the first pass over three entries has just closed a discrepancy of two
\* and the loop is about to exit
C26_Witness ==
    /\ op = "round_preserving_sum"
    /\ pc = "while"
    /\ passes = 1
    /\ Len(iterable) = 3
    /\ changed = 2
    /\ int_sum = orig_sum

====
